---- MODULE Spec2Model ----
(***************************************************************************)
(* Model of src/my_model_selectors.py: the four model selectors            *)
(* (SelectorConstant, SelectorBIC, SelectorDIC, SelectorCV) and            *)
(* ModelSelector.base_model.                                               *)
(*                                                                         *)
(* The HMM trainer (GaussianHMM.fit) and scorer (model.score) are external *)
(* and modelled by their outcomes: a fit succeeds or raises, a score       *)
(* returns a number or raises.  Training on the word's full data with a    *)
(* fixed random_state is deterministic, so the outcome of base_model(n) is *)
(* remembered per n (variable fit).  Log-likelihoods are floats in the     *)
(* program; here they are drawn from a small set of integers, and values   *)
(* derived from them (means, differences) are exact rationals.  math.log   *)
(* of the row count is an input (logN), a non-negative integer here.       *)
(***************************************************************************)
EXTENDS Integers, Sequences, FiniteSets, TLC

\* ---------------------------------------------------------------- bounds
MaxN == 3          \* largest max_n_components and n_constant explored
MaxScore == 2      \* log-likelihoods are drawn from -MaxScore..0
MaxOthers == 1     \* most other words in the catalogue (DIC)
MaxSeq == 3        \* most instance sequences of this word (CV)
MaxFeatures == 2   \* largest feature dimensionality (BIC)
MaxLogN == 1       \* largest value of log(number of rows) (BIC)

\* ------------------------------------------------------ program constants
Offset == 2        \* the "+2" of base_model(best_state+2)
KFoldSplits == 3   \* KFold(n_splits=min(3, len(self.sequences)))

MaxTrain == MaxN + Offset     \* largest state count base_model can be asked

VARIABLES
    kind,            \* which selector class is instantiated
    min_n, max_n,    \* self.min_n_components, self.max_n_components
    n_constant,      \* self.n_constant
    n_features,      \* model.n_features (dimensionality of self.X)
    logN,            \* math.log(self.X.shape[0])
    num_others,      \* number of words of self.hwords other than this_word
    num_seq,         \* len(self.sequences)
    pc,              \* "run", "done" (select returned), "raised" (it raised)
    states,          \* loop variable: `states` (BIC, DIC) or `n` (CV)
    fold,            \* CV: 1-based index of the next fold of split()
    scores,          \* bic_scores / dic_scores
    best_state,      \* best_state of BIC/DIC (-1 until assigned)
    best_score,      \* CV: best_score
    best_model,      \* CV: best_model
    log_likelihood,  \* CV: log_likelihood of the fold just run
    cur_model,       \* CV: _model
    fit,             \* outcome of GaussianHMM(n).fit on the full data, per n
    requests,        \* state counts of every GaussianHMM(...).fit call, in order
    result,          \* value returned by select()
    scored_n,        \* history: the n of each entry of scores (BIC, DIC)
    any_scored,      \* history: some CV fold trained and scored
    fold_sum,        \* history: sum of the held-out scores of the current n
    fold_cnt,        \* history: number of held-out scores of the current n
    ref_n, ref_mean  \* history: n with the greatest mean fold score so far

vars == <<kind, min_n, max_n, n_constant, n_features, logN, num_others, num_seq,
          pc, states, fold, scores, best_state, best_score, best_model,
          log_likelihood, cur_model, fit, requests, result,
          scored_n, any_scored, fold_sum, fold_cnt, ref_n, ref_mean>>

\* ----------------------------------------------------------------- values
\* A float: a rational num/den, nan, or -inf.
Num(x) == [k |-> "num", num |-> x, den |-> 1]
Rat(x, y) == [k |-> "num", num |-> x, den |-> y]
NaN == [k |-> "nan", num |-> 0, den |-> 1]
NegInf == [k |-> "ninf", num |-> 0, den |-> 1]

\* a < b on floats; any comparison with nan is False
Less(a, b) ==
    IF a.k = "nan" \/ b.k = "nan" THEN FALSE
    ELSE IF b.k = "ninf" THEN FALSE
    ELSE IF a.k = "ninf" THEN TRUE
    ELSE a.num * b.den < b.num * a.den

\* a > b on floats, with nan winning every comparison (not Python's rule)
GreaterNaNWins(a, b) ==
    IF a.k = "nan" THEN TRUE ELSE Less(b, a)

\* a > b on floats (the test `np.mean(log_likelihood) > best_score`)
Greater(a, b) ==
    Less(b, a)

\* a - b on floats
Minus(a, b) ==
    IF a.k = "nan" \/ b.k = "nan" THEN NaN
    ELSE Rat(a.num * b.den - b.num * a.den, a.den * b.den)

RECURSIVE SumSeq(_)
SumSeq(s) ==
    IF s = <<>> THEN 0 ELSE s[1] + SumSeq(Tail(s))

\* np.mean of a list of scores: nan for the empty list
Mean(s) ==
    IF s = <<>> THEN NaN ELSE Rat(SumSeq(s), Len(s))

\* np.argmin (zero-based): first nan if any, else first minimum
ArgMin(s) ==
    IF \E i \in 1..Len(s) : s[i].k = "nan"
    THEN (CHOOSE i \in 1..Len(s) :
             s[i].k = "nan" /\ \A j \in 1..(i-1) : s[j].k # "nan") - 1
    ELSE (CHOOSE i \in 1..Len(s) :
             /\ \A j \in 1..Len(s) : ~Less(s[j], s[i])
             /\ \A j \in 1..(i-1) : Less(s[i], s[j])) - 1

\* np.argmax (zero-based): first nan if any, else first maximum
ArgMax(s) ==
    IF \E i \in 1..Len(s) : s[i].k = "nan"
    THEN (CHOOSE i \in 1..Len(s) :
             s[i].k = "nan" /\ \A j \in 1..(i-1) : s[j].k # "nan") - 1
    ELSE (CHOOSE i \in 1..Len(s) :
             /\ \A j \in 1..Len(s) : ~Less(s[i], s[j])
             /\ \A j \in 1..(i-1) : Less(s[j], s[i])) - 1

\* ----------------------------------------------------------------- models
\* A fitted model: its state count and the data it was fitted on
\* (fold 0: the full data, fold f > 0: the training split of fold f).
Model(n, f) == [n |-> n, fold |-> f]
None == [n |-> 0, fold |-> 0]
Unbound == [n |-> -1, fold |-> 0]    \* a local name not yet assigned

\* ------------------------------------------------------------ environment
ScoreVals == (0 - MaxScore)..0

\* model.score(...): a log-likelihood, or an exception
ScoreOutcomes ==
    {[ok |-> TRUE, val |-> v] : v \in ScoreVals} \cup {[ok |-> FALSE, val |-> 0]}

\* fit then score: fit raises; fit succeeds and score raises; both succeed
TrainScoreOutcomes ==
    {[fit |-> FALSE, ok |-> FALSE, val |-> 0]}
    \cup {[fit |-> TRUE, ok |-> o.ok, val |-> o.val] : o \in ScoreOutcomes}

\* the trainer may answer `ok` for n: first request, or the same as before
TrainerSays(n, ok) ==
    \/ fit[n] = "?"
    \/ fit[n] = (IF ok THEN "ok" ELSE "fail")

Trained(n, ok) ==
    [fit EXCEPT ![n] = IF ok THEN "ok" ELSE "fail"]

\* base_model(num_states): the fitted model, or None when fit raises
base_model(num_states, ok) ==
    IF ok THEN Model(num_states, 0) ELSE None

\* ------------------------------------------------------------------ Init
Kinds == {"Constant", "BIC", "DIC", "CV"}

\* ModelSelector.__init__: the configuration and the word's data.  Inputs a
\* selector never reads are held at one value.
Init ==
    /\ kind \in Kinds
    /\ min_n \in 1..MaxN
    /\ max_n \in min_n..MaxN
    /\ n_constant \in 1..MaxN
    /\ n_features \in (IF kind = "BIC" THEN 1..MaxFeatures ELSE {1})
    /\ logN \in (IF kind = "BIC" THEN 0..MaxLogN ELSE {0})
    /\ num_others \in (IF kind = "DIC" THEN 0..MaxOthers ELSE {0})
    /\ num_seq \in (IF kind = "CV" THEN 1..MaxSeq ELSE {1})
    /\ pc = "run"
    /\ states = min_n
    /\ fold = 1
    /\ scores = <<>>
    /\ best_state = -1
    /\ best_score = NegInf
    /\ best_model = None
    /\ log_likelihood = <<>>
    /\ cur_model = Unbound
    /\ fit = [n \in 1..MaxTrain |-> "?"]
    /\ requests = <<>>
    /\ result = None
    /\ scored_n = <<>>
    /\ any_scored = FALSE
    /\ fold_sum = 0
    /\ fold_cnt = 0
    /\ ref_n = 0
    /\ ref_mean = NegInf

config == <<kind, min_n, max_n, n_constant, n_features, logN, num_others, num_seq>>
cvLocals == <<fold, best_score, best_model, log_likelihood, cur_model>>
cvHistory == <<any_scored, fold_sum, fold_cnt, ref_n, ref_mean>>

\* `return self.base_model(num_states)`
ReturnBaseModel(num_states) ==
    \E ok \in BOOLEAN :
        /\ TrainerSays(num_states, ok)
        /\ fit' = Trained(num_states, ok)
        /\ requests' = Append(requests, num_states)
        /\ result' = base_model(num_states, ok)
        /\ pc' = "done"

\* an exception leaves select()
Raise ==
    /\ pc' = "raised"
    /\ UNCHANGED <<fit, requests, result>>

\* ------------------------------------------------------- SelectorConstant
ConstantStatesWrong == min_n

\* best_num_components = self.n_constant
ConstantStates == n_constant

ConstantSelect ==
    /\ kind = "Constant" /\ pc = "run"
    /\ ReturnBaseModel(ConstantStates)
    /\ UNCHANGED <<config, states, scores, best_state, scored_n, cvLocals, cvHistory>>

\* ------------------------------------------------------------ SelectorBIC
\* p = states ** 2 + 2 * states * model_bic.n_features - 1
ParamCount(n) == n * n + 2 * n * n_features - 1

\* BIC = -2*log_likelihood + p * math.log(self.X.shape[0])
BICScore(n, L) == Num((0 - 2) * L + ParamCount(n) * logN)

HasScoresAlways(s) == TRUE

\* the truth value of the score list in `... if bic_scores else ...`
HasScores(s) == s # <<>>

\* one iteration of `for states in range(min_n, max_n + 1)`: a failed fit
\* makes base_model return None and None.score raises; every exception of
\* the body is swallowed by `except: pass`
BICCandidate ==
    /\ kind = "BIC" /\ pc = "run" /\ states <= max_n
    /\ \E o \in TrainScoreOutcomes :
        /\ TrainerSays(states, o.fit)
        /\ fit' = Trained(states, o.fit)
        /\ requests' = Append(requests, states)
        /\ IF o.fit /\ o.ok
           THEN /\ scores' = Append(scores, BICScore(states, o.val))
                /\ scored_n' = Append(scored_n, states)
           ELSE UNCHANGED <<scores, scored_n>>
    /\ states' = states + 1
    /\ UNCHANGED <<config, pc, best_state, result, cvLocals, cvHistory>>

\* best_state = np.argmin(bic_scores) if bic_scores else self.n_constant
\* return self.base_model(best_state+2)     (np.argmin([]) raises ValueError)
BICFinish ==
    /\ kind = "BIC" /\ pc = "run" /\ states > max_n
    /\ IF HasScores(scores) /\ scores = <<>>
       THEN Raise /\ UNCHANGED best_state
       ELSE /\ best_state' = (IF HasScores(scores) THEN ArgMin(scores) ELSE n_constant)
            /\ ReturnBaseModel(best_state' + Offset)
    /\ UNCHANGED <<config, states, scores, scored_n, cvLocals, cvHistory>>

\* ------------------------------------------------------------ SelectorDIC
\* the score calls of one candidate: all return (ok), or one of them raises
DICScorings ==
    {[ok |-> TRUE, others |-> f, self |-> v] :
        f \in [1..num_others -> ScoreVals], v \in ScoreVals}
    \cup {[ok |-> FALSE, others |-> [i \in 1..num_others |-> 0], self |-> 0]}

\* DIC = model.score(self.X, self.lengths) - np.mean(other_words_scores)
DICScore(self, others) == Minus(Num(self), Mean(others))

DICCandidate ==
    /\ kind = "DIC" /\ pc = "run" /\ states <= max_n
    /\ \E ok \in BOOLEAN :
        /\ TrainerSays(states, ok)
        /\ fit' = Trained(states, ok)
        /\ requests' = Append(requests, states)
        /\ IF ok
           THEN \E sc \in DICScorings :
                    IF sc.ok
                    THEN /\ scores' = Append(scores, DICScore(sc.self, sc.others))
                         /\ scored_n' = Append(scored_n, states)
                    ELSE UNCHANGED <<scores, scored_n>>
           ELSE UNCHANGED <<scores, scored_n>>
    /\ states' = states + 1
    /\ UNCHANGED <<config, pc, best_state, result, cvLocals, cvHistory>>

\* best_state = np.argmax(dic_scores) if dic_scores else self.n_constant
\* return self.base_model(best_state+2)
DICFinish ==
    /\ kind = "DIC" /\ pc = "run" /\ states > max_n
    /\ IF HasScores(scores) /\ scores = <<>>
       THEN Raise /\ UNCHANGED best_state
       ELSE /\ best_state' = (IF HasScores(scores) THEN ArgMax(scores) ELSE n_constant)
            /\ ReturnBaseModel(best_state' + Offset)
    /\ UNCHANGED <<config, states, scores, scored_n, cvLocals, cvHistory>>

\* ------------------------------------------------------------- SelectorCV
\* n_splits=min(3, len(self.sequences)): the number of folds split() yields
NumFolds == IF num_seq < KFoldSplits THEN num_seq ELSE KFoldSplits

AlwaysTrained(wins, trained) == trained

\* `best_model = _model`, inside `if np.mean(log_likelihood) > best_score:`
NextBestModel(wins, trained) == IF wins THEN trained ELSE best_model

\* `if len(self.sequences) <= 1: continue`
CVSkip ==
    /\ kind = "CV" /\ pc = "run" /\ states <= max_n
    /\ num_seq <= 1
    /\ states' = states + 1
    /\ UNCHANGED <<config, pc, scores, best_state, fit, requests, result,
                   scored_n, cvLocals, cvHistory>>

\* one iteration of `for train_x, test_x in split_method.split(...)`:
\* log_likelihood is reset, a model with n states is fitted on the training
\* split and scored on the held-out split (exceptions swallowed), and the
\* mean of log_likelihood is compared with best_score.  Reading _model
\* before any fit has succeeded would raise NameError.
CVFold ==
    /\ kind = "CV" /\ pc = "run" /\ states <= max_n
    /\ num_seq > 1
    /\ \E o \in TrainScoreOutcomes :
        LET trained == IF o.fit THEN Model(states, fold) ELSE cur_model
            ll == IF o.fit /\ o.ok THEN <<o.val>> ELSE <<>>
            wins == Greater(Mean(ll), best_score)
            sum == fold_sum + SumSeq(ll)
            cnt == fold_cnt + Len(ll)
            last == fold = NumFolds
        IN  /\ cur_model' = trained
            /\ log_likelihood' = ll
            /\ requests' = Append(requests, states)
            /\ IF wins /\ trained = Unbound
               THEN /\ pc' = "raised"
                    /\ UNCHANGED <<best_score, best_model, states, fold>>
               ELSE /\ best_score' = (IF wins THEN Mean(ll) ELSE best_score)
                    /\ best_model' = NextBestModel(wins, trained)
                    /\ fold' = (IF last THEN 1 ELSE fold + 1)
                    /\ states' = (IF last THEN states + 1 ELSE states)
                    /\ pc' = pc
            /\ any_scored' = (any_scored \/ ll # <<>>)
            /\ fold_sum' = (IF last THEN 0 ELSE sum)
            /\ fold_cnt' = (IF last THEN 0 ELSE cnt)
            /\ IF last /\ cnt > 0 /\ Less(ref_mean, Rat(sum, cnt))
               THEN ref_n' = states /\ ref_mean' = Rat(sum, cnt)
               ELSE UNCHANGED <<ref_n, ref_mean>>
    /\ UNCHANGED <<config, scores, best_state, fit, result, scored_n>>

\* `if not best_model` (None is falsy, a fitted model is truthy)
Falsy(m) == m = None

\* the state count of the fallback: best_model = self.base_model(self.n_constant)
CVFallbackStates == n_constant

\* if not best_model: best_model = self.base_model(self.n_constant)
\* return best_model
CVFinish ==
    /\ kind = "CV" /\ pc = "run" /\ states > max_n
    /\ IF Falsy(best_model)
       THEN \E ok \in BOOLEAN :
                /\ TrainerSays(CVFallbackStates, ok)
                /\ fit' = Trained(CVFallbackStates, ok)
                /\ requests' = Append(requests, CVFallbackStates)
                /\ best_model' = base_model(CVFallbackStates, ok)
       ELSE UNCHANGED <<fit, requests, best_model>>
    /\ result' = best_model'
    /\ pc' = "done"
    /\ UNCHANGED <<config, states, fold, scores, best_state, best_score,
                   log_likelihood, cur_model, scored_n, cvHistory>>

\* ------------------------------------------------------------------- Spec
Next ==
    \/ ConstantSelect
    \/ BICCandidate
    \/ BICFinish
    \/ DICCandidate
    \/ DICFinish
    \/ CVSkip
    \/ CVFold
    \/ CVFinish

Spec == Init /\ [][Next]_vars

\* ----------------------------------------------------------------- claims
Done == pc = "done"
Candidates == min_n..max_n
Last(s) == s[Len(s)]

\* what base_model(n) returned, for an n that was requested
BaseModelOf(n) == base_model(n, fit[n] = "ok")

\* BIC/DIC: the n with the best recorded score (minimum for BIC, maximum for
\* DIC), the smallest such n on ties
BestScoredN ==
    LET I == 1..Len(scores)
        Beats(j, i) == IF kind = "BIC" THEN Less(scores[j], scores[i])
                                       ELSE Less(scores[i], scores[j])
        best == {scored_n[i] : i \in {i \in I : \A j \in I : ~Beats(j, i)}}
    IN  CHOOSE n \in best : \A m \in best : n <= m

NoNaN == \A i \in 1..Len(scores) : scores[i].k = "num"

\* C1: BIC/DIC, when at least one candidate was scored, return a model whose
\* state count is the n with the minimum (BIC) / maximum (DIC) score among
\* the scored candidates, the smallest such n on ties.  (Stated of the model
\* that is returned; a None result is C5's subject.)
C1_Claim ==
    (Done /\ kind \in {"BIC", "DIC"} /\ scores # <<>> /\ NoNaN)
        => (result # None => result.n = BestScoredN)

\* C2: every training request and the returned model have a state count in
\* [min_n, max_n] united with {n_constant} (or select returns None).
C2_Claim ==
    /\ \A i \in 1..Len(requests) : requests[i] \in Candidates \cup {n_constant}
    /\ Done => (result = None \/ result.n \in Candidates \cup {n_constant})

\* C3: BIC/DIC, when every candidate failed, make their final training
\* request with n_constant and return what base_model(n_constant) returns.
C3_Claim ==
    (Done /\ kind \in {"BIC", "DIC"} /\ scores = <<>>)
        => /\ Last(requests) = n_constant
           /\ fit[n_constant] # "?"
           /\ result = BaseModelOf(n_constant)

\* C4: CV, when no fold of any n produced a score (all failed, or the word
\* has at most one sequence, in which case no fold is trained at all),
\* returns what base_model(n_constant) returns; best_score is never the
\* mean of an empty list.
C4_CVFallback ==
    /\ best_score.k # "nan"
    /\ (Done /\ kind = "CV" /\ ~any_scored)
          => /\ Last(requests) = n_constant
             /\ fit[n_constant] # "?"
             /\ result = BaseModelOf(n_constant)
             /\ best_score = NegInf
    /\ (Done /\ kind = "CV" /\ num_seq <= 1) => Len(requests) = 1

\* C4 witness: every fold of every n failed, one of them after a
\* successful fit, and the fallback model was returned
C4_Witness ==
    /\ Done /\ kind = "CV" /\ num_seq > 1 /\ ~any_scored
    /\ cur_model # Unbound /\ result = Model(n_constant, 0)

\* C5: BIC/DIC/CV return None only when every candidate failed and
\* training n_constant failed as well.
C5_Claim ==
    (Done /\ kind \in {"BIC", "DIC", "CV"} /\ result = None)
        => /\ (IF kind = "CV" THEN ~any_scored ELSE scores = <<>>)
           /\ fit[n_constant] = "fail"

\* C6: SelectorConstant makes exactly one training request, with
\* n_constant, whatever min_n and max_n are, and returns its result.
C6_ConstantOneRequest ==
    kind = "Constant"
        => /\ pc # "raised"
           /\ pc = "run" => requests = <<>>
           /\ Done => /\ requests = <<n_constant>>
                      /\ result = BaseModelOf(n_constant)

\* C6 witness: n_constant lies outside [min_n, max_n] and was trained
C6_Witness ==
    /\ Done /\ kind = "Constant" /\ n_constant \notin Candidates
    /\ result = Model(n_constant, 0)

\* C7: no failure of a candidate or of a fold leaves select() as an
\* exception: select() never raises, can always take its next step until it
\* returns, and returns a fitted model or None.
C7_NeverRaises ==
    /\ pc # "raised"
    /\ pc = "run" => ENABLED Next
    /\ Done => (result = None \/ result.n >= 1)

\* C7 witness: DIC returned after one candidate failed to train and
\* another was scored
C7_Witness ==
    /\ Done /\ kind = "DIC" /\ scores # <<>>
    /\ \E n \in Candidates : fit[n] = "fail"

\* C8: CV returns a model whose state count is the n with the strictly
\* greatest mean of its successful fold scores, the earliest n on ties.
C8_Claim ==
    (Done /\ kind = "CV" /\ ref_n # 0)
        => (result # None /\ result.n = ref_n)

\* C9: BIC/DIC, when every candidate was scored, return a model whose state
\* count is min_n + (zero-based index of the best score).  (Stated of the
\* model that is returned.)
C9_Claim ==
    (Done /\ kind \in {"BIC", "DIC"} /\ Len(scores) = max_n - min_n + 1)
        => (result # None => result.n = min_n + best_state)

\* a step of the fold loop: a failed fold changes neither best_score nor
\* best_model; otherwise both stay, or both become this fold's score and
\* this fold's model
C10_FoldStep ==
    (kind = "CV" /\ pc = "run" /\ states <= max_n /\ num_seq > 1)
        => IF log_likelihood' = <<>>
           THEN best_score' = best_score /\ best_model' = best_model
           ELSE \/ best_score' = best_score /\ best_model' = best_model
                \/ /\ best_score' = Num(log_likelihood'[1])
                   /\ Less(best_score, best_score')
                   /\ best_model' = Model(states, fold)
                   /\ cur_model' = Model(states, fold)

\* best_model is set exactly when best_score is above -inf, and then it is
\* a model fitted in a fold of a candidate n
C10_Paired ==
    (kind = "CV" /\ pc = "run")
        => /\ (best_model = None) <=> (best_score = NegInf)
           /\ best_model # None
                => /\ best_score.k = "num"
                   /\ best_model.n \in Candidates
                   /\ best_model.fold \in 1..NumFolds

====
